---- MODULE Spec2Model ----
(***************************************************************************)
(* Model of cluster_manager_Ira.py: RACClient (external calls, mutation    *)
(* primitives) and ClusterManager (collect_cluster_info,                   *)
(* block_inactive_bases).                                                  *)
(*                                                                         *)
(* Text is a sequence of one-character strings.  The stdout of a list      *)
(* query is represented by the sequence of field mappings it carries (one  *)
(* per record); an empty sequence is an empty/blank stdout.  A timestamp   *)
(* is a record [set, aware, t]: set = FALSE is Python's None, aware tells  *)
(* whether the parsed datetime carries a UTC offset, t is the instant.     *)
(* Entity fields that no operation of the manager reads (host, port,       *)
(* descr, user_name, ...) are left out of the records.                     *)
(***************************************************************************)
EXTENDS Integers, Sequences, FiniteSets, TLC

\* ---------------------------------------------------------------- bounds
MaxClusters == 2   \* clusters a cluster list returns
MaxBases == 2      \* infobases fetched in one pass, over all clusters
MaxSessions == 2   \* sessions fetched in one pass, over all clusters
MaxLines == 4      \* lines of a text given to _parse_output

\* ------------------------------------------------------------ sequences
RECURSIVE SeqsUpTo(_, _)
SeqsUpTo(S, n) ==
    IF n = 0 THEN {<<>>}
    ELSE LET shorter == SeqsUpTo(S, n - 1)
         IN  shorter \cup {Append(q, x) : q \in {r \in shorter : Len(r) = n - 1}, x \in S}

\* ----------------------------------------------------------- timestamps
None == [set |-> FALSE, aware |-> FALSE, t |-> 0]

Naive(t) == [set |-> TRUE, aware |-> FALSE, t |-> t]
Aware(t) == [set |-> TRUE, aware |-> TRUE, t |-> t]

\* sample of the values get_sessions can give last_active_at
Times == {None, Naive(1), Naive(2), Aware(1)}

\* max(last_active_times): the builtin keeps the first greatest element and
\* compares the running maximum with each next element; comparing a naive
\* with an aware datetime raises TypeError.
\* the comparison of the running maximum turned around
RECURSIVE PyMaxFromMutant(_, _, _)
PyMaxFromMutant(times, i, cur) ==
    IF i > Len(times) THEN [raised |-> FALSE, value |-> cur]
    ELSE IF times[i].aware # cur.aware THEN [raised |-> TRUE, value |-> None]
    ELSE PyMaxFromMutant(times, i + 1, IF times[i].t < cur.t THEN times[i] ELSE cur)

RECURSIVE PyMaxFrom(_, _, _)
PyMaxFrom(times, i, cur) ==
    IF i > Len(times) THEN [raised |-> FALSE, value |-> cur]
    ELSE IF times[i].aware # cur.aware THEN [raised |-> TRUE, value |-> None]
    ELSE PyMaxFrom(times, i + 1, IF times[i].t > cur.t THEN times[i] ELSE cur)

PyMax(times) == PyMaxFrom(times, 2, times[1])

\* ----------------------------------------------------------------- text
Lower(c) ==
    CASE c = "E" -> "e"
      [] c = "R" -> "r"
      [] c = "O" -> "o"
      [] OTHER -> c

LowerText(text) == [i \in DOMAIN text |-> Lower(text[i])]

Contains(text, needle) ==
    \E i \in 0..(Len(text) - Len(needle)) :
        \A j \in 1..Len(needle) : text[i + j] = needle[j]

ErrorWord == <<"e", "r", "r", "o", "r">>

IsSpace(c) == c \in {" ", "\n"}

\* str.strip() == "" : only whitespace
StripIsEmpty(text) == \A i \in DOMAIN text : IsSpace(text[i])

Stdouts ==
    { <<>>,
      <<" ">>,
      <<"\n">>,
      <<"o", "k">>,
      <<"e", "r", "r", "o", "r">>,
      <<"E", "R", "R", "O", "R">>,
      <<"E", "r", "r", "o", "r">>,
      <<"x", "E", "r", "R", "o", "r", " ">>,
      <<"e", "r", "r", " ", "o", "r">>,
      <<"e", "r", "r", "o">>,
      <<"r", "o", "r", "r", "e">>,
      <<"o", "k", " ", "E", "R", "R", "O", "R", "\n">>,
      <<"o", "k", "\n", "e", "r", "r", "o", "r">> }

\* ---------------------------------------------------------- _parse_output
\* str.strip(): leading and trailing whitespace removed
RECURSIVE LStrip(_)
LStrip(text) ==
    IF text # <<>> /\ IsSpace(text[1]) THEN LStrip(Tail(text)) ELSE text

RECURSIVE RStrip(_)
RStrip(text) ==
    IF text # <<>> /\ IsSpace(text[Len(text)])
    THEN RStrip(SubSeq(text, 1, Len(text) - 1)) ELSE text

Strip(text) == RStrip(LStrip(text))

\* str.split('\n'): the segments between the newlines, at least one
RECURSIVE SplitFrom(_, _, _)
SplitFrom(text, i, seg) ==
    IF i > Len(text) THEN << seg >>
    ELSE IF text[i] = "\n" THEN << seg >> \o SplitFrom(text, i + 1, <<>>)
    ELSE SplitFrom(text, i + 1, Append(seg, text[i]))

SplitLines(text) == SplitFrom(text, 1, <<>>)

\* ':' in line
HasColon(line) == \E i \in DOMAIN line : line[i] = ":"

\* line.partition(':'): the parts before and after the first colon
FirstColon(line) ==
    CHOOSE i \in DOMAIN line : line[i] = ":" /\ \A j \in 1..(i - 1) : line[j] # ":"

KeyOf(line) == Strip(SubSeq(line, 1, FirstColon(line) - 1))

ValueOf(line) == Strip(SubSeq(line, FirstColon(line) + 1, Len(line)))

\* current_item[key] = value
DictSet(d, key, value) ==
    [x \in (DOMAIN d) \cup {key} |-> IF x = key THEN value ELSE d[x]]

EmptyDict == [x \in {} |-> <<>>]

\* `if current_item`: the dict has an entry
Truthy(d) == DOMAIN d # {}

\* a blank line appends the current item without the `if current_item` test
RECURSIVE ParseFromMutant(_, _, _, _)
ParseFromMutant(lines, i, items, current_item) ==
    IF i > Len(lines)
    THEN IF Truthy(current_item) THEN Append(items, current_item) ELSE items
    ELSE LET line == Strip(lines[i])
         IN  IF line = <<>>
             THEN ParseFromMutant(lines, i + 1, Append(items, current_item), EmptyDict)
             ELSE IF HasColon(line)
                  THEN ParseFromMutant(lines, i + 1, items,
                                       DictSet(current_item, KeyOf(line), ValueOf(line)))
                  ELSE ParseFromMutant(lines, i + 1, items, current_item)

\* the loop `for line in output.strip().split('\n')` from line i on, and the
\* flush of the last item after it
RECURSIVE ParseFrom(_, _, _, _)
ParseFrom(lines, i, items, current_item) ==
    IF i > Len(lines)
    THEN IF Truthy(current_item) THEN Append(items, current_item) ELSE items
    ELSE LET line == Strip(lines[i])
         IN  IF line = <<>>
             THEN IF Truthy(current_item)
                  THEN ParseFrom(lines, i + 1, Append(items, current_item), EmptyDict)
                  ELSE ParseFrom(lines, i + 1, items, current_item)
             ELSE IF HasColon(line)
                  THEN ParseFrom(lines, i + 1, items,
                                 DictSet(current_item, KeyOf(line), ValueOf(line)))
                  ELSE ParseFrom(lines, i + 1, items, current_item)

ParseOutput(output) == ParseFrom(SplitLines(Strip(output)), 1, <<>>, EmptyDict)

\* the text of a sequence of lines: the lines joined by newlines
RECURSIVE JoinLines(_)
JoinLines(lines) ==
    IF lines = <<>> THEN <<>>
    ELSE IF Len(lines) = 1 THEN lines[1]
    ELSE lines[1] \o <<"\n">> \o JoinLines(Tail(lines))

\* sample of the lines of a list output: blank, key:value, colon-less
LineSamples ==
    { <<>>,
      <<" ">>,
      <<"k", ":", "v">>,
      <<"k", ":", " ", "w">>,
      <<"j", ":", "v">>,
      <<"x">>,
      <<" ", "j", " ", ":", "v", ":", "w", " ">> }

\* ------------------------------------------------- external process runs
\* One run of subprocess.run: it either times out (TimeoutExpired) or gives
\* a return code and a stdout.
TextRuns ==
    {[timedOut |-> TRUE, returncode |-> 0, stdout |-> <<>>]}
    \cup [timedOut : {FALSE}, returncode : {0, 1}, stdout : Stdouts]

\* sample of the runs of the block primitive inside block_inactive_bases
BlockRuns ==
    {run \in TextRuns :
        run.stdout \in {<<>>, <<"o", "k">>, <<"E", "r", "r", "o", "r">>}}

ListRuns(items) ==
    {[timedOut |-> TRUE, returncode |-> 0, stdout |-> <<>>]}
    \cup [timedOut : {FALSE}, returncode : {0, 1}, stdout : items]

\* _execute_command on a text stdout; <<>> is the returned "".
ExecuteCommand(run) ==
    IF run.timedOut THEN <<>>
    ELSE IF run.returncode # 0 THEN <<>>
    ELSE IF StripIsEmpty(run.stdout) THEN <<>>
    ELSE run.stdout

\* _execute_command followed by _parse_output on the stdout of a list query.
ExecuteQuery(run) ==
    IF run.timedOut THEN <<>>
    ELSE IF run.returncode # 0 THEN <<>>
    ELSE IF run.stdout = <<>> THEN <<>>
    ELSE run.stdout

\* the step failed: timeout, nonzero exit status or empty output
QueryFailed(run) == run.timedOut \/ run.returncode # 0 \/ Len(run.stdout) = 0

\* --------------------------------------------------- mutation primitives
\* block_infobase: success = "error" not in output.lower() if output else False
BlockInfobase(run) ==
    LET output == ExecuteCommand(run)
    IN  IF output # <<>> THEN ~Contains(LowerText(output), ErrorWord) ELSE FALSE

\* unblock_infobase delegates to block_infobase with both deny flags off
UnblockInfobase(run) == BlockInfobase(run)

\* terminate_session: "error" not in output.lower() if output else True
TerminateSession(run) ==
    LET output == ExecuteCommand(run)
    IN  IF output # <<>> THEN ~Contains(LowerText(output), ErrorWord) ELSE TRUE

\* ------------------------------------------------------------- entities
Cluster(item) == [cluster_id |-> item.cluster]

WorkingServer(item) == [server_id |-> item.server]

InfoBase(oid, item) ==
    [oid |-> oid, infobase_id |-> item.infobase, name |-> item.name,
     sessions_count |-> 0, last_session_time |-> None, is_inactive |-> FALSE]

Session(item) == [infobase_id |-> item.infobase, last_active_at |-> item.last_active_at]

ClusterReport ==
    [clusters |-> <<>>, servers |-> <<>>, infobases |-> <<>>, sessions |-> <<>>,
     inactive_bases |-> <<>>, errors |-> <<>>]

\* samples of the texts a cluster list can carry: the first n clusters
ClusterNames == <<"c1", "c2", "c3", "c4">>
ClusterLists ==
    {[i \in 1..n |-> [cluster |-> ClusterNames[i]]] : n \in 0..MaxClusters}
ServerLists == {<< [server |-> "s1"] >>}
\* samples of the records an infobase list and a session list can carry
InfobaseItems ==
    {[infobase |-> "ib1", name |-> "A"], [infobase |-> "ib2", name |-> "B"]}
SessionItems == [infobase : {"ib1"}, last_active_at : Times]

\* ---------------------------------------------------------------- state
VARIABLES
    pc,            \* position of the driver: start, servers, infobases, sessions,
                   \* correlate, done, block, blocked
    report,        \* self.report
    ci,            \* index of `cluster` in the loop over report.clusters
    infobases,     \* local `infobases` of the current cluster
    all_sessions,  \* local `all_sessions` of the current cluster
    ii,            \* index of `ib` in the loop over infobases
    nextOid,       \* identity given to the next InfoBase object
    calls,         \* external invocations made so far, in order; `failed` is the
                   \* failure of a query step, or a mutation reporting False
    passes,        \* per finished cluster: its infobases and all_sessions
    dry_run,       \* argument of block_inactive_bases
    blocked,       \* local `blocked` of block_inactive_bases
    bc,            \* index of `cluster` in block_inactive_bases
    bi,            \* index of `ib` in block_inactive_bases
    mut,           \* last direct call of a mutation primitive
    parse          \* last direct call of _parse_output: input lines and result

vars == <<pc, report, ci, infobases, all_sessions, ii, nextOid, calls, passes,
          dry_run, blocked, bc, bi, mut, parse>>

collectVars == <<report, ci, infobases, all_sessions, ii, nextOid, calls, passes>>
blockVars == <<dry_run, blocked, bc, bi>>

NoRun == [timedOut |-> TRUE, returncode |-> 0, stdout |-> <<>>]
NoMut == [op |-> "none", run |-> NoRun, result |-> FALSE]
NoParse == [lines |-> <<>>, items |-> <<>>, done |-> FALSE]

Call(op, cluster, infobase, target, failed) ==
    [op |-> op, cluster |-> cluster, infobase |-> infobase, target |-> target,
     failed |-> failed]

Init ==
    /\ pc = "start"
    /\ report = ClusterReport
    /\ ci = 0
    /\ infobases = <<>>
    /\ all_sessions = <<>>
    /\ ii = 0
    /\ nextOid = 1
    /\ calls = <<>>
    /\ passes = <<>>
    /\ dry_run = TRUE
    /\ blocked = <<>>
    /\ bc = 0
    /\ bi = 0
    /\ mut = NoMut
    /\ parse = NoParse

\* ------------------------------------------------- collect_cluster_info
\* self.report = ClusterReport(); self.report.clusters = get_clusters()
GetClusters ==
    /\ pc = "start"
    /\ \E run \in ListRuns(ClusterLists) :
        LET items == ExecuteQuery(run)
            clusters == [i \in DOMAIN items |-> Cluster(items[i])]
        IN  /\ report' = [ClusterReport EXCEPT !.clusters = clusters]
            /\ calls' = Append(calls, Call("cluster list", "", "", 0, QueryFailed(run)))
            /\ IF clusters = <<>>
               THEN pc' = "done" /\ ci' = 0
               ELSE pc' = "servers" /\ ci' = 1
    /\ UNCHANGED <<infobases, all_sessions, ii, nextOid, passes, blockVars, mut, parse>>

\* servers = get_servers(cluster.cluster_id); report.servers.extend(servers)
GetServers ==
    /\ pc = "servers"
    /\ \E run \in ListRuns(ServerLists) :
        LET items == ExecuteQuery(run)
            servers == [i \in DOMAIN items |-> WorkingServer(items[i])]
        IN  /\ report' = [report EXCEPT !.servers = @ \o servers]
            /\ calls' = Append(calls, Call("server list", report.clusters[ci].cluster_id,
                                           "", 0, QueryFailed(run)))
    /\ pc' = "infobases"
    /\ UNCHANGED <<ci, infobases, all_sessions, ii, nextOid, passes, blockVars, mut, parse>>

\* infobases = get_infobases(cluster.cluster_id)
GetInfobases ==
    /\ pc = "infobases"
    /\ \E run \in ListRuns(SeqsUpTo(InfobaseItems, MaxBases - (nextOid - 1))) :
        LET items == ExecuteQuery(run)
        IN  /\ infobases' = [i \in DOMAIN items |-> InfoBase(nextOid + i - 1, items[i])]
            /\ nextOid' = nextOid + Len(items)
            /\ calls' = Append(calls, Call("infobase summary list",
                                           report.clusters[ci].cluster_id,
                                           "", 0, QueryFailed(run)))
    /\ pc' = "sessions"
    /\ UNCHANGED <<report, ci, all_sessions, ii, passes, blockVars, mut, parse>>

\* all_sessions = get_sessions(cluster.cluster_id); report.sessions.extend(...)
GetSessions ==
    /\ pc = "sessions"
    /\ \E run \in ListRuns(SeqsUpTo(SessionItems, MaxSessions - Len(report.sessions))) :
        LET items == ExecuteQuery(run)
            sessions == [i \in DOMAIN items |-> Session(items[i])]
        IN  /\ all_sessions' = sessions
            /\ report' = [report EXCEPT !.sessions = @ \o sessions]
            /\ calls' = Append(calls, Call("session list", report.clusters[ci].cluster_id,
                                           "", 0, QueryFailed(run)))
    /\ pc' = "correlate"
    /\ ii' = 1
    /\ UNCHANGED <<ci, infobases, nextOid, passes, blockVars, mut, parse>>

\* the filter on infobase_id left out
IbSessionsMutant(ib, sessions) == sessions

\* ib_sessions = [s for s in all_sessions if s.infobase_id == ib.infobase_id]
IbSessions(ib, sessions) ==
    SelectSeq(sessions, LAMBDA s : s.infobase_id = ib.infobase_id)

\* last_active_times = [s.last_active_at for s in ib_sessions if s.last_active_at]
LastActiveTimes(ib_sessions) ==
    LET withTime == SelectSeq(ib_sessions, LAMBDA s : s.last_active_at.set)
    IN  [i \in DOMAIN withTime |-> withTime[i].last_active_at]

\* an infobase with a single session taken for inactive
InactiveRuleMutant(count) == count <= 1

\* if ib.sessions_count == 0
InactiveRule(count) == count = 0

\* max(last_active_times) raises for this infobase
CorrelationRaises(ib, sessions) ==
    LET times == LastActiveTimes(IbSessions(ib, sessions))
    IN  times # <<>> /\ PyMax(times).raised

\* sessions_count taken from the sessions that report a last_active_at
CorrelatedMutant(ib, sessions) ==
    LET ib_sessions == IbSessions(ib, sessions)
        times == LastActiveTimes(ib_sessions)
        count == Len(times)
    IN  [ib EXCEPT !.sessions_count = count,
                   !.last_session_time =
                        IF ib_sessions # <<>> /\ times # <<>> THEN PyMax(times).value ELSE @,
                   !.is_inactive = IF InactiveRule(count) THEN TRUE ELSE @]

\* the body of `for ib in infobases` when nothing raises
Correlated(ib, sessions) ==
    LET ib_sessions == IbSessions(ib, sessions)
        times == LastActiveTimes(ib_sessions)
        count == Len(ib_sessions)
    IN  [ib EXCEPT !.sessions_count = count,
                   !.last_session_time =
                        IF ib_sessions # <<>> /\ times # <<>> THEN PyMax(times).value ELSE @,
                   !.is_inactive = IF InactiveRule(count) THEN TRUE ELSE @]

CorrelateIb ==
    /\ pc = "correlate"
    /\ ii <= Len(infobases)
    /\ ~CorrelationRaises(infobases[ii], all_sessions)
    /\ LET ib == Correlated(infobases[ii], all_sessions)
       IN  /\ infobases' = [infobases EXCEPT ![ii] = ib]
           /\ report' = IF InactiveRule(ib.sessions_count)
                        THEN [report EXCEPT !.inactive_bases = Append(@, ib)]
                        ELSE report
    /\ ii' = ii + 1
    /\ UNCHANGED <<pc, ci, all_sessions, nextOid, calls, passes, blockVars, mut, parse>>

\* max() raises TypeError inside the loop: the except clause of the pass
\* records the message and the pass returns.
CorrelateRaise ==
    /\ pc = "correlate"
    /\ ii <= Len(infobases)
    /\ CorrelationRaises(infobases[ii], all_sessions)
    /\ report' = [report EXCEPT !.errors = Append(@, "collect error")]
    /\ pc' = "done"
    /\ UNCHANGED <<ci, infobases, all_sessions, ii, nextOid, calls, passes, blockVars, mut, parse>>

\* self.report.infobases.extend(infobases); next cluster or return
ExtendInfobases ==
    /\ pc = "correlate"
    /\ ii > Len(infobases)
    /\ report' = [report EXCEPT !.infobases = @ \o infobases]
    /\ passes' = Append(passes, [infobases |-> infobases, sessions |-> all_sessions])
    /\ IF ci < Len(report.clusters)
       THEN pc' = "servers" /\ ci' = ci + 1
       ELSE pc' = "done" /\ ci' = ci
    /\ UNCHANGED <<infobases, all_sessions, ii, nextOid, calls, blockVars, mut, parse>>

\* ------------------------------------------------- block_inactive_bases
StartBlock ==
    /\ pc = "done"
    /\ \E d \in BOOLEAN : dry_run' = d
    /\ blocked' = <<>>
    /\ bc' = 1
    /\ bi' = 1
    /\ pc' = "block"
    /\ UNCHANGED <<collectVars, mut, parse>>

\* one iteration of `for ib in self.report.inactive_bases`
BlockIter ==
    /\ pc = "block"
    /\ bc <= Len(report.clusters)
    /\ bi <= Len(report.inactive_bases)
    /\ LET ib == report.inactive_bases[bi]
           cluster == report.clusters[bc]
       IN  IF dry_run
           THEN /\ blocked' = Append(blocked, ib.name)
                /\ calls' = calls
           ELSE \E run \in BlockRuns :
                /\ calls' = Append(calls, Call("infobase update", cluster.cluster_id,
                                               ib.infobase_id, ib.oid, ~BlockInfobase(run)))
                /\ blocked' = IF BlockInfobase(run) THEN Append(blocked, ib.name)
                              ELSE blocked
    /\ bi' = bi + 1
    /\ UNCHANGED <<pc, report, ci, infobases, all_sessions, ii, nextOid, passes,
                   dry_run, bc, mut, parse>>

\* the inner loop is exhausted: next `cluster in self.report.clusters`
BlockNextCluster ==
    /\ pc = "block"
    /\ bc <= Len(report.clusters)
    /\ bi > Len(report.inactive_bases)
    /\ bc' = bc + 1
    /\ bi' = 1
    /\ UNCHANGED <<pc, collectVars, dry_run, blocked, mut, parse>>

\* return blocked
BlockReturn ==
    /\ pc = "block"
    /\ bc > Len(report.clusters)
    /\ pc' = "blocked"
    /\ UNCHANGED <<collectVars, blockVars, mut, parse>>

Next ==
    \/ GetClusters
    \/ GetServers
    \/ GetInfobases
    \/ GetSessions
    \/ CorrelateIb
    \/ CorrelateRaise
    \/ ExtendInfobases
    \/ StartBlock
    \/ BlockIter
    \/ BlockNextCluster
    \/ BlockReturn

Spec == Init /\ [][Next]_vars

\* collect_cluster_info alone
NextCollect ==
    \/ GetClusters
    \/ GetServers
    \/ GetInfobases
    \/ GetSessions
    \/ CorrelateIb
    \/ CorrelateRaise
    \/ ExtendInfobases

SpecCollect == Init /\ [][NextCollect]_vars

\* ------------------------------------ direct calls of the primitives
InitMut ==
    /\ pc = "start"
    /\ report = ClusterReport
    /\ ci = 0
    /\ infobases = <<>>
    /\ all_sessions = <<>>
    /\ ii = 0
    /\ nextOid = 1
    /\ calls = <<>>
    /\ passes = <<>>
    /\ dry_run = TRUE
    /\ blocked = <<>>
    /\ bc = 0
    /\ bi = 0
    /\ mut \in [op : {"none"}, run : TextRuns, result : {FALSE}]
    /\ parse = NoParse

CallBlockInfobase ==
    /\ mut.op = "none"
    /\ mut' = [mut EXCEPT !.op = "block_infobase", !.result = BlockInfobase(mut.run)]
    /\ UNCHANGED <<pc, collectVars, blockVars, parse>>

CallUnblockInfobase ==
    /\ mut.op = "none"
    /\ mut' = [mut EXCEPT !.op = "unblock_infobase", !.result = UnblockInfobase(mut.run)]
    /\ UNCHANGED <<pc, collectVars, blockVars, parse>>

CallTerminateSession ==
    /\ mut.op = "none"
    /\ mut' = [mut EXCEPT !.op = "terminate_session", !.result = TerminateSession(mut.run)]
    /\ UNCHANGED <<pc, collectVars, blockVars, parse>>

NextMut ==
    \/ CallBlockInfobase
    \/ CallUnblockInfobase
    \/ CallTerminateSession

SpecMut == InitMut /\ [][NextMut]_vars

\* ------------------------------------------ direct calls of _parse_output
InitParse ==
    /\ pc = "start"
    /\ report = ClusterReport
    /\ ci = 0
    /\ infobases = <<>>
    /\ all_sessions = <<>>
    /\ ii = 0
    /\ nextOid = 1
    /\ calls = <<>>
    /\ passes = <<>>
    /\ dry_run = TRUE
    /\ blocked = <<>>
    /\ bc = 0
    /\ bi = 0
    /\ mut = NoMut
    /\ parse \in [lines : SeqsUpTo(LineSamples, MaxLines), items : {<<>>}, done : {FALSE}]

CallParseOutput ==
    /\ ~parse.done
    /\ parse' = [parse EXCEPT !.items = ParseOutput(JoinLines(parse.lines)),
                              !.done = TRUE]
    /\ UNCHANGED <<pc, collectVars, blockVars, mut>>

NextParse == CallParseOutput

SpecParse == InitParse /\ [][NextParse]_vars

\* =================================================================
\* Properties
\* =================================================================
\* collect_cluster_info has returned its snapshot
Returned == pc \in {"done", "block", "blocked"}

NamesOf(bases) == [i \in DOMAIN bases |-> bases[i].name]

BlockCallsFor(oid) ==
    {k \in DOMAIN calls : calls[k].op = "infobase update" /\ calls[k].target = oid}

InInactive(ib) == \E k \in DOMAIN report.inactive_bases : report.inactive_bases[k].oid = ib.oid

\* the cluster iteration that fetched the infobase object
HasPass(ib) ==
    \E p \in DOMAIN passes : \E k \in DOMAIN passes[p].infobases :
        passes[p].infobases[k].oid = ib.oid

PassOf(ib) ==
    CHOOSE p \in DOMAIN passes : \E k \in DOMAIN passes[p].infobases :
        passes[p].infobases[k].oid = ib.oid

\* positions of the sessions of a list that carry the infobase's id
Matching(ib, sessions) == {k \in DOMAIN sessions : sessions[k].infobase_id = ib.infobase_id}

RECURSIVE SumCounts(_)
SumCounts(bases) ==
    IF bases = <<>> THEN 0 ELSE bases[1].sessions_count + SumCounts(Tail(bases))

\* C1: a dry run makes no block call and returns exactly the names of the
\* snapshot's inactive infobases, each once, in snapshot order.
C1_DryRunExactNames ==
    (pc = "blocked" /\ dry_run) =>
        /\ \A k \in DOMAIN calls : calls[k].op # "infobase update"
        /\ blocked = NamesOf(report.inactive_bases)

\* C2: a live run calls the block primitive exactly once per inactive
\* infobase, appends a name only for a successful call, and so returns at
\* most one entry per inactive infobase.
C2_LiveOneCallPerBase ==
    (pc = "blocked" /\ ~dry_run) =>
        /\ \A i \in DOMAIN report.inactive_bases :
              Cardinality(BlockCallsFor(report.inactive_bases[i].oid)) = 1
        /\ Len(blocked) = Cardinality({k \in DOMAIN calls :
              calls[k].op = "infobase update" /\ ~calls[k].failed})
        /\ Len(blocked) <= Len(report.inactive_bases)

\* C3: in a returned snapshot an infobase is in the inactive list and has
\* is_inactive set exactly when it has no matching session
\* (sessions_count = 0); with a matching session it is neither.
C3_InactiveIffNoSessions ==
    Returned =>
        \A i \in DOMAIN report.infobases :
            LET ib == report.infobases[i]
                matching == IF HasPass(ib)
                            THEN Matching(ib, passes[PassOf(ib)].sessions) ELSE {}
            IN  /\ HasPass(ib)
                /\ InInactive(ib) <=> (ib.sessions_count = 0)
                /\ ib.is_inactive <=> (ib.sessions_count = 0)
                /\ (matching = {}) <=> (InInactive(ib) /\ ib.is_inactive)
                /\ (matching # {}) => (~InInactive(ib) /\ ~ib.is_inactive)

C3_Witness ==
    /\ pc = "done"
    /\ \E i, j \in DOMAIN report.infobases :
        /\ report.infobases[i].sessions_count = 0
        /\ InInactive(report.infobases[i])
        /\ report.infobases[j].sessions_count >= 1
        /\ ~InInactive(report.infobases[j])

\* C4 (as stated): sessions_count equals the number of sessions of the whole
\* snapshot (report.sessions, all clusters) carrying the infobase's id.
C4_CountOverSnapshot ==
    Returned =>
        \A i \in DOMAIN report.infobases :
            report.infobases[i].sessions_count
                = Cardinality(Matching(report.infobases[i], report.sessions))

\* C4 (amended): sessions_count equals the number of sessions fetched for
\* the infobase's own cluster in this pass that carry the infobase's id.
C4_CountOverOwnCluster ==
    Returned =>
        \A i \in DOMAIN report.infobases :
            LET ib == report.infobases[i]
            IN  /\ HasPass(ib)
                /\ ib.sessions_count
                     = Cardinality(Matching(ib, passes[PassOf(ib)].sessions))

C4_Witness ==
    /\ pc = "done"
    /\ Len(passes) = 2
    /\ \E i \in DOMAIN report.infobases :
        LET ib == report.infobases[i]
        IN  /\ PassOf(ib) = 1
            /\ ib.sessions_count = 1
            /\ Cardinality(Matching(ib, report.sessions)) = 2

\* C5 (as stated): for the lists B and S of a cluster, the sum of
\* sessions_count over B equals the number of sessions of S whose id is the
\* id of some infobase of B, repeated ids in B included.
C5_SumEqualsMatchedSessions ==
    \A p \in DOMAIN passes :
        LET B == passes[p].infobases
            S == passes[p].sessions
        IN  SumCounts(B)
              = Cardinality({k \in DOMAIN S :
                    \E i \in DOMAIN B : S[k].infobase_id = B[i].infobase_id})

\* C5 (amended): the sum of sessions_count over B equals the number of
\* pairs (infobase of B, session of S) with equal ids; when the ids of B are
\* pairwise distinct this is the number of sessions of S matched by B.
C5_SumEqualsMatchedPairs ==
    \A p \in DOMAIN passes :
        LET B == passes[p].infobases
            S == passes[p].sessions
            pairs == {<<i, k>> \in (DOMAIN B) \X (DOMAIN S) :
                          S[k].infobase_id = B[i].infobase_id}
            matched == {k \in DOMAIN S :
                          \E i \in DOMAIN B : S[k].infobase_id = B[i].infobase_id}
            distinctIds == \A i, j \in DOMAIN B :
                          B[i].infobase_id = B[j].infobase_id => i = j
        IN  /\ SumCounts(B) = Cardinality(pairs)
            /\ distinctIds => SumCounts(B) = Cardinality(matched)

C5_Witness ==
    \E p \in DOMAIN passes :
        LET B == passes[p].infobases
            S == passes[p].sessions
        IN  /\ Len(B) = 2
            /\ B[1].infobase_id = B[2].infobase_id
            /\ Len(S) = 1
            /\ SumCounts(B) = 2

\* C6: in a returned snapshot last_session_time is None exactly when no
\* matched session has a last_active_at; otherwise it is the greatest
\* last_active_at of the matched sessions.
C6_LastSessionTimeIsMax ==
    Returned =>
        \A i \in DOMAIN report.infobases :
            LET ib == report.infobases[i]
                S == IF HasPass(ib) THEN passes[PassOf(ib)].sessions ELSE <<>>
                T == {S[k].last_active_at : k \in {m \in Matching(ib, S) :
                                                       S[m].last_active_at.set}}
            IN  /\ (ib.last_session_time = None) <=> (T = {})
                /\ T # {} =>
                     /\ ib.last_session_time \in T
                     /\ \A x \in T : x.t <= ib.last_session_time.t

C6_Witness ==
    /\ pc = "done"
    /\ \E i \in DOMAIN report.infobases :
        LET ib == report.infobases[i]
            S == passes[PassOf(ib)].sessions
        IN  /\ ib.last_session_time = Naive(2)
            /\ \E k \in Matching(ib, S) : S[k].last_active_at = Naive(1)

\* C7: in every returned snapshot, one returned after a failure inside the
\* correlation loop included, each element of inactive_bases is an element
\* of infobases and inactive_bases keeps the order of infobases.
C7_InactiveSubsetOfInfobases ==
    Returned =>
        /\ \A k \in DOMAIN report.inactive_bases :
              \E i \in DOMAIN report.infobases :
                  report.infobases[i] = report.inactive_bases[k]
        /\ \A k, l \in DOMAIN report.inactive_bases :
              k < l =>
                \E i, j \in DOMAIN report.infobases :
                    /\ i < j
                    /\ report.infobases[i].oid = report.inactive_bases[k].oid
                    /\ report.infobases[j].oid = report.inactive_bases[l].oid

\* the report renders an errors section
RendersErrorsSection == report.errors # <<>>

\* C8: a snapshot collected with at least one failed external call has a
\* non-empty errors list, and the report renders an errors section.
C8_FailedStepRecorded ==
    Returned =>
        ((\E k \in DOMAIN calls :
              calls[k].op # "infobase update" /\ calls[k].failed)
            => (report.errors # <<>> /\ RendersErrorsSection))

\* the queries of a pass, in order: operation and cluster
QueryCalls ==
    LET q == SelectSeq(calls, LAMBDA c : c.op # "infobase update")
    IN  [k \in DOMAIN q |-> <<q[k].op, q[k].cluster>>]

RECURSIVE ExpectedQueries(_)
ExpectedQueries(clusters) ==
    IF clusters = <<>> THEN <<>>
    ELSE << <<"server list", clusters[1].cluster_id>>,
            <<"infobase summary list", clusters[1].cluster_id>>,
            <<"session list", clusters[1].cluster_id>> >>
         \o ExpectedQueries(Tail(clusters))

\* C9: in one pass every cluster of the cluster list gets exactly one server
\* list, one infobase summary list and one session list call, in that order,
\* cluster by cluster, whatever calls failed.
C9_EveryClusterQueriedOnce ==
    Returned =>
        QueryCalls = << <<"cluster list", "">> >> \o ExpectedQueries(report.clusters)

\* C10: every mutation primitive returns false when the call fails (timeout,
\* nonzero exit status) or its stdout contains "error" in any letter case.
C10_FailureReportsFalse ==
    mut.op # "none" =>
        ((\/ mut.run.timedOut
          \/ mut.run.returncode # 0
          \/ Contains(LowerText(mut.run.stdout), ErrorWord))
            => mut.result = FALSE)

\* the records of the input: the maximal runs <<a, b>> of non-blank lines
Records ==
    LET L == parse.lines
        nonblank(i) == ~StripIsEmpty(L[i])
    IN  {r \in (DOMAIN L) \X (DOMAIN L) :
            /\ r[1] <= r[2]
            /\ \A i \in r[1]..r[2] : nonblank(i)
            /\ r[1] = 1 \/ ~nonblank(r[1] - 1)
            /\ r[2] = Len(L) \/ ~nonblank(r[2] + 1)}

\* the records with at least one key:value line
KeyedRecords == {r \in Records : \E i \in r[1]..r[2] : HasColon(parse.lines[i])}

\* the mapping of a record: each key with the value of its last line
RecordMapping(r) ==
    LET L == parse.lines
        keyed == {i \in r[1]..r[2] : HasColon(L[i])}
        last(key) == CHOOSE i \in keyed :
                        /\ KeyOf(L[i]) = key
                        /\ \A j \in keyed : KeyOf(L[j]) = key => j <= i
    IN  [key \in {KeyOf(L[i]) : i \in keyed} |-> ValueOf(L[last(key)])]

\* the mappings of a set of records, in input order
MappingsOf(records) ==
    [k \in 1..Cardinality(records) |->
        RecordMapping(CHOOSE r \in records :
                          Cardinality({q \in records : q[1] < r[1]}) = k - 1)]

\* C11 (as stated): _parse_output emits, in input order, exactly one mapping
\* per record (maximal run of non-blank lines), each key with the value of
\* its last line; colon-less lines add nothing; empty input gives no mapping.
C11_OneMappingPerRecord ==
    parse.done => parse.items = MappingsOf(Records)

\* C11 (amended): exactly one mapping per record that has at least one
\* key:value line; a record of colon-less lines only emits nothing.
C11_OneMappingPerKeyedRecord ==
    parse.done =>
        /\ parse.items = MappingsOf(KeyedRecords)
        /\ Len(parse.items) = Cardinality(KeyedRecords)
        /\ \A k \in DOMAIN parse.items : Truthy(parse.items[k])

\* two records, the first with a repeated key, the last without a closing
\* blank line
C11_Witness ==
    /\ parse.done
    /\ parse.lines = << <<"k", ":", "v">>, <<"k", ":", " ", "w">>, <<>>,
                        <<"j", ":", "v">> >>
    /\ Len(parse.items) = 2
    /\ parse.items[1][<<"k">>] = <<"w">>

\* the id of the cluster whose iteration fetched the infobase object: the
\* p-th finished iteration is that of the p-th cluster; an object of no
\* finished iteration is of the iteration the pass was aborted in
OriginCluster(oid) ==
    IF \E p \in DOMAIN passes : \E k \in DOMAIN passes[p].infobases :
            passes[p].infobases[k].oid = oid
    THEN report.clusters[CHOOSE p \in DOMAIN passes :
                            \E k \in DOMAIN passes[p].infobases :
                                passes[p].infobases[k].oid = oid].cluster_id
    ELSE report.clusters[ci].cluster_id

\* C12: every block request of a live run names the cluster the inactive
\* infobase was collected from, never another cluster of the snapshot.
C12_BlockUnderOwnCluster ==
    \A k \in DOMAIN calls :
        calls[k].op = "infobase update" =>
            calls[k].cluster = OriginCluster(calls[k].target)

====
